---- MODULE Spec2Model ----
(***************************************************************************)
(* C-NMF (v3) music segmentation: src/algorithms/cnmf3/segmenter.py.       *)
(*                                                                         *)
(* Spec / FairSpec model one run of process(): the length test against the *)
(* pre-smoothing window h, the rank-escalation loop of get_segmentation    *)
(* and the labelling by compute_labels2.  The factorization backend (pymf) *)
(* is an external solver: every call either raises or returns an           *)
(* activation matrix G, chosen nondeterministically.                       *)
(***************************************************************************)
EXTENDS Integers, Sequences, FiniteSets, TLC

VARIABLES
    inp,          \* the run's arguments (N frames, h, R, rank, supplied bounds) and
                  \* what is known of its input and solver (regimes, contract)
    pc,           \* position in process / get_segmentation
    rank,         \* get_segmentation's local `rank`
    bound_idxs,   \* get_segmentation's / process's `bound_idxs` (None or an index list)
    est_labels,   \* the labels handed back (None until they are computed)
    log,          \* the calls made to cnmf so far, in order
    found,        \* the candidates of the discovery attempt that ended the loop
    incs,         \* number of executions of `rank += 1`
    medianCalls,  \* number of calls process made to median_filter
    segCalls,     \* number of calls process made to get_segmentation
    unit          \* record of a direct call of one helper (unit runs only)

vars == <<inp, pc, rank, bound_idxs, est_labels, log, found,
          incs, medianCalls, segCalls, unit>>

-----------------------------------------------------------------------------
(* Bounds of the model.                                                    *)

MaxFrames == 4
MaxWeight == 1
MaxActive == 2

(* Program constants.                                                      *)
rank_labels == 5
R_labels == 6

-----------------------------------------------------------------------------
(* Generic helpers.                                                        *)

None == [isNone |-> TRUE, idxs |-> <<>>]
Some(s) == [isNone |-> FALSE, idxs |-> s]

Range(s) == {s[i] : i \in DOMAIN s}

SetMin(S) == CHOOSE m \in S : \A x \in S : m <= x
SetMax(S) == CHOOSE m \in S : \A x \in S : x <= m

RECURSIVE SortedSeq(_)
SortedSeq(S) == IF S = {} THEN <<>>
                ELSE LET m == SetMin(S) IN <<m>> \o SortedSeq(S \ {m})

(* The tuple holding the values of the function s on 1..n: operators below *)
(* build their arrays once instead of on every access.                     *)
Mat(s) == s \o <<>>

RECURSIVE SeqSum(_)
SeqSum(s) == IF s = <<>> THEN 0 ELSE Head(s) + SeqSum(Tail(s))

(* Python's x[a:b] for 0 <= a, 0 <= b (the slice is clipped to the array). *)
Slice(x, a, b) ==
    LET hi == IF b < Len(x) THEN b ELSE Len(x)
    IN  IF a >= hi THEN <<>> ELSE Mat([k \in 1..(hi - a) |-> x[a + k]])

-----------------------------------------------------------------------------
(* scipy.ndimage.filters.median_filter on one column: window of `size`     *)
(* samples starting size \div 2 before the sample, indices outside the     *)
(* array mirrored at the edges (mode "reflect"), and the sample of rank    *)
(* size \div 2 of the sorted window as the output.                         *)

Reflect(i, n) ==
    LET j == i % (2 * n) IN IF j < n THEN j ELSE 2 * n - 1 - j

RankOf(w, k) ==
    CHOOSE v \in Range(w) :
        /\ Cardinality({j \in DOMAIN w : w[j] < v}) <= k
        /\ k < Cardinality({j \in DOMAIN w : w[j] <= v})

Window(x, i, size) ==
    Mat([k \in 1..size |->
            x[Reflect((i - 1) - (size \div 2) + (k - 1), Len(x)) + 1]])

median1d(x, size) ==
    Mat([i \in 1..Len(x) |-> RankOf(Window(x, i, size), size \div 2)])

Column(X, c) == Mat([n \in 1..Len(X) |-> X[n][c]])

(* median_filter(X, M): every column of X is overwritten by its smoothed   *)
(* values; the value is the new content of X, which is also what is        *)
(* returned (`return X`).                                                  *)
median_filter(X, M) ==
    LET cols == Mat([c \in 1..Len(X[1]) |-> median1d(Column(X, c), M)])
    IN  Mat([n \in 1..Len(X) |-> Mat([c \in 1..Len(X[n]) |-> cols[c][n]])])

-----------------------------------------------------------------------------
(* np.argmax: the first index holding the maximum (indices from 0).        *)

np_argmax_last(a) ==
    SetMax({i \in DOMAIN a : \A j \in DOMAIN a : a[j] <= a[i]}) - 1

np_argmax(a) ==
    SetMin({i \in DOMAIN a : \A j \in DOMAIN a : a[j] <= a[i]}) - 1

(* filter_activation_matrix, lines 141-145: what is left in the caller's   *)
(* G, a matrix of frames x rank, after `G[:, :] = 0; G[max_idx] = idx + 1`.*)
HardAssign(G) ==
    Mat([n \in 1..Len(G) |->
        LET idx == np_argmax(G[n])
        IN  Mat([c \in 1..Len(G[n]) |-> IF c - 1 = idx THEN idx + 1 ELSE 0])])

(* lines 149-150: np.sum(G, axis=1) of the hard-assigned matrix.           *)
HardLabels(G) ==
    LET H == HardAssign(G) IN Mat([n \in 1..Len(G) |-> SeqSum(H[n])])

(* lines 150-156: the smoothed flat sequence that is returned.             *)
filter_activation_matrix(G, R) ==
    LET flat == HardLabels(G)
    IN  Column(median_filter(Mat([n \in 1..Len(G) |-> <<flat[n]>>]), R), 1)

-----------------------------------------------------------------------------
(* most_frequent(x) = np.argmax(np.bincount(x)), x a non-empty sequence of *)
(* non-negative integers.                                                  *)

bincount(x) ==
    Mat([v \in 1..(SetMax(Range(x)) + 1) |->
            Cardinality({i \in DOMAIN x : x[i] = v - 1})])

most_frequent_high(x) == np_argmax_last(bincount(x))

most_frequent(x) == np_argmax(bincount(x))

(* compute_labels2, lines 126-130: the label of one pair of boundaries.    *)
Sentinel(label_frames) == SetMax(Range(label_frames)) + 1

PairLabel(label_frames, b0, b1) ==
    IF b1 - b0 <= 0 THEN Sentinel(label_frames)
    ELSE most_frequent(Slice(label_frames, b0, b1))

(* compute_labels2, lines 120-134, for a factorization that succeeded with *)
(* activation matrix G (frames x rank, i.e. G.T of the source).            *)
compute_labels2(G, R, bounds) ==
    LET label_frames == filter_activation_matrix(G, R)
        m == Len(bounds)
        inner == IF m <= 1 THEN <<>>
                 ELSE Mat([i \in 1..(m - 1) |->
                             PairLabel(label_frames, bounds[i], bounds[i + 1])])
    IN  <<label_frames[1]>> \o inner \o <<label_frames[Len(label_frames)]>>

-----------------------------------------------------------------------------
(* get_segmentation, lines 194-209.                                        *)

(* line 196: np.where(np.diff(G) != 0)[0] + 1                              *)
BoundCandidates(g) ==
    SortedSeq({i \in 1..(Len(g) - 1) : g[i + 1] # g[i]})

(* line 205: len(np.unique(bound_idxs)) <= 2                               *)
TooFewNone(bounds) == Cardinality(Range(bounds)) <= 0

TooFew(bounds) == Cardinality(Range(bounds)) <= 2

(* line 206: rank += 1                                                     *)
EscalateStay(r) == r

EscalateTwo(r) == r + 2

Escalate(r) == r + 1

-----------------------------------------------------------------------------
(* The factorization backend behind cnmf (pymf.CNMF, lines 41-68).  It is  *)
(* an iterative solver outside the repository: a call either raises or     *)
(* returns an activation matrix.  The matrices it may return are bounded   *)
(* to the 0/1 matrices with one active component per frame, the active     *)
(* component being constant on each of (at most) four blocks of frames:    *)
(* the frames themselves for N <= 4, the quarters of the input otherwise.  *)
(* It is one of the first MaxActive components for a short input and one   *)
(* of the first two for a long one.                                        *)

NBlocks(N) == IF N < 4 THEN N ELSE 4

BlockLen(N) == N \div NBlocks(N)

Active(rk, N) ==
    LET most == IF N <= MaxFrames THEN MaxActive ELSE 2
    IN  1..(IF rk < most THEN rk ELSE most)

BlockOf(f, N) ==
    LET b == f \div BlockLen(N)
    IN  IF b >= NBlocks(N) THEN NBlocks(N) ELSE b + 1

OneHot(lab, rk, N) ==
    Mat([n \in 1..N |->
            Mat([c \in 1..rk |-> IF c = lab[BlockOf(n - 1, N)] THEN 1 ELSE 0])])

Activations(rk, N) ==
    {OneHot(lab, rk, N) : lab \in [1..NBlocks(N) -> Active(rk, N)]}

(* The two-regime input (first half one pattern, second half another) at   *)
(* rank 2: one component is active on the first half, the other on the     *)
(* second.                                                                 *)
TwoRegimeActivations(N) ==
    {OneHot(<<a, a, b, b>>, 2, N) : <<a, b>> \in {<<1, 2>>, <<2, 1>>}}

SolverOutputs(rk, in) ==
    IF in.regimes /\ rk = 2 THEN TwoRegimeActivations(in.N)
    ELSE Activations(rk, in.N)

(* A solver that honours "fails when rank >= N" never returns then; one    *)
(* that does not may return at any rank.                                   *)
cnmf_may_return(rk, N, contract) == contract => rk < N

-----------------------------------------------------------------------------
(* Inputs of a run.                                                        *)

MaxRank == MaxFrames
Frames == 2..MaxFrames
PreWindows == {MaxFrames - 1}
ActWindows == {1, 2}
InitRanks == {2, 3, 4}

(* Supplied boundary lists: strictly increasing frame indices in [0, N).   *)
BoundLists(N) == {SortedSeq(0..(k - 1)) : k \in 0..N}

Inputs ==
    UNION {[N : {n}, h : PreWindows, R : ActWindows, rank : InitRanks,
            bounds : {None} \cup {Some(b) : b \in BoundLists(n)},
            regimes : {FALSE}, contract : BOOLEAN] : n \in Frames}

NoUnit == [fn |-> "none"]

Init ==
    /\ inp \in Inputs
    /\ pc = "process"
    /\ rank = inp.rank
    /\ bound_idxs = inp.bounds
    /\ est_labels = None
    /\ log = <<>>
    /\ found = None
    /\ incs = 0
    /\ medianCalls = 0
    /\ segCalls = 0
    /\ unit = NoUnit

-----------------------------------------------------------------------------
(* process, lines 273-285.                                                 *)

LongEnoughStrict(N, h) == N > h

LongEnough(N, h) == N >= h

(* lines 273-280: smooth the features, then enter get_segmentation.        *)
ProcessSegment ==
    /\ pc = "process"
    /\ LongEnough(inp.N, inp.h)
    /\ medianCalls' = medianCalls + 1
    /\ segCalls' = segCalls + 1
    /\ pc' = "loop"
    /\ UNCHANGED <<inp, rank, bound_idxs, est_labels, log, found, incs, unit>>

(* lines 281-285: the track is too short.                                  *)
ProcessTooShort ==
    /\ pc = "process"
    /\ ~LongEnough(inp.N, inp.h)
    /\ bound_idxs' = Some(<<>>)
    /\ est_labels' = Some(<<1>>)
    /\ pc' = "times"
    /\ UNCHANGED <<inp, rank, log, found, incs, medianCalls,
                   segCalls, unit>>

-----------------------------------------------------------------------------
(* get_segmentation, lines 186-209: one iteration of `while True`.         *)

(* An entry of the call log: which factorization, at which rank, whether   *)
(* it returned, and how many distinct boundary candidates it led to.       *)
LogEntry(kind, rk, ok, nb) == [kind |-> kind, rank |-> rk, ok |-> ok, nb |-> nb]

(* lines 205-209, applied to the boundaries in hand.                       *)
Decide(bounds) ==
    IF TooFew(bounds)
    THEN /\ rank' = Escalate(rank)
         /\ incs' = incs + 1
         /\ bound_idxs' = None
         /\ pc' = "loop"
    ELSE /\ bound_idxs' = Some(bounds)
         /\ pc' = "labels"
         /\ UNCHANGED <<rank, incs>>

DiscoverFailRetry ==
    /\ pc = "loop"
    /\ bound_idxs.isNone
    /\ log' = Append(log, LogEntry("discover", rank, FALSE, 0))
    /\ rank' = Escalate(rank)
    /\ UNCHANGED <<inp, pc, bound_idxs, est_labels, found,
                   incs, medianCalls, segCalls, unit>>

(* lines 188-191: the discovery factorization raises.                      *)
DiscoverFail ==
    /\ pc = "loop"
    /\ bound_idxs.isNone
    /\ log' = Append(log, LogEntry("discover", rank, FALSE, 0))
    /\ bound_idxs' = Some(<<>>)
    /\ est_labels' = Some(<<1>>)
    /\ pc' = "times"
    /\ UNCHANGED <<inp, rank, found, incs, medianCalls,
                   segCalls, unit>>

(* lines 188-209: the discovery factorization returns G.  The loop has no  *)
(* bound of its own: attempts are explored up to rank MaxRank, past which  *)
(* the factorization is only taken to raise.                               *)
DiscoverAttempt ==
    /\ pc = "loop"
    /\ bound_idxs.isNone
    /\ rank <= MaxRank
    /\ incs <= MaxRank
    /\ cnmf_may_return(rank, inp.N, inp.contract)
    /\ \E G \in SolverOutputs(rank, inp) :
          LET cands == BoundCandidates(filter_activation_matrix(G, inp.R))
          IN  /\ log' = Append(log, LogEntry("discover", rank, TRUE, Cardinality(Range(cands))))
              /\ found' = IF TooFew(cands) THEN found ELSE Some(cands)
              /\ Decide(cands)
    /\ UNCHANGED <<inp, est_labels, medianCalls, segCalls, unit>>

(* lines 187, 205-209: boundaries were supplied, no factorization.         *)
UseSupplied ==
    /\ pc = "loop"
    /\ ~bound_idxs.isNone
    /\ Decide(bound_idxs.idxs)
    /\ UNCHANGED <<inp, est_labels, log, found, medianCalls,
                   segCalls, unit>>

-----------------------------------------------------------------------------
(* get_segmentation, lines 211-221, with compute_labels2, lines 115-134.   *)

(* lines 115-118: the labelling factorization raises.                      *)
LabelFail ==
    /\ pc = "labels"
    /\ log' = Append(log, LogEntry("label", rank_labels, FALSE, 0))
    /\ est_labels' = Some(<<1>>)
    /\ pc' = "times"
    /\ UNCHANGED <<inp, rank, bound_idxs, found, incs,
                   medianCalls, segCalls, unit>>

(* lines 115-134: the labelling factorization returns G.                   *)
Label ==
    /\ pc = "labels"
    /\ cnmf_may_return(rank_labels, inp.N, inp.contract)
    /\ \E G \in SolverOutputs(rank_labels, inp) :
          est_labels' = Some(compute_labels2(G, R_labels, bound_idxs.idxs))
    /\ log' = Append(log, LogEntry("label", rank_labels, TRUE, 0))
    /\ pc' = "times"
    /\ UNCHANGED <<inp, rank, bound_idxs, found, incs,
                   medianCalls, segCalls, unit>>

-----------------------------------------------------------------------------
(* process, lines 287-300: the first and last time stamps are added and    *)
(* the lengths are asserted to agree.                                      *)

LenEstTimes(bounds) == (1 + Len(bounds)) + 1

ProcessReturn ==
    /\ pc = "times"
    /\ pc' = IF LenEstTimes(bound_idxs.idxs) - 1 = Len(est_labels.idxs)
             THEN "done" ELSE "AssertionError"
    /\ UNCHANGED <<inp, rank, bound_idxs, est_labels, log, found, incs, medianCalls, segCalls, unit>>

Next ==
    \/ ProcessSegment
    \/ ProcessTooShort
    \/ DiscoverFail
    \/ DiscoverAttempt
    \/ UseSupplied
    \/ LabelFail
    \/ Label
    \/ ProcessReturn

Spec == Init /\ [][Next]_vars

(* The core is single-threaded and synchronous: a step that can be taken   *)
(* is taken.                                                               *)
FairSpec == Spec /\ WF_vars(Next)

-----------------------------------------------------------------------------
(* The two-regime run: 2 * RegimeLen frames, initial rank 2, no supplied   *)
(* boundaries, the windows of process's defaults and of config.py.         *)

RegimeLen == 50

TwoRegimeInputs ==
    [N : {2 * RegimeLen}, h : {8, 10}, R : {9, 15}, rank : {2},
     bounds : {None}, regimes : {TRUE}, contract : BOOLEAN]

InitTwoRegime ==
    /\ inp \in TwoRegimeInputs
    /\ pc = "process"
    /\ rank = inp.rank
    /\ bound_idxs = inp.bounds
    /\ est_labels = None
    /\ log = <<>>
    /\ found = None
    /\ incs = 0
    /\ medianCalls = 0
    /\ segCalls = 0
    /\ unit = NoUnit

NextTwoRegime ==
    \/ ProcessSegment
    \/ DiscoverFail
    \/ DiscoverAttempt
    \/ LabelFail
    \/ Label
    \/ ProcessReturn

SpecTwoRegime == InitTwoRegime /\ [][NextTwoRegime]_vars


-----------------------------------------------------------------------------
(* Direct calls of the helpers.  The caller owns an array X and passes it; *)
(* X0 is its content at the time of the call, X its content now, out what  *)
(* the call returned and alias whether out is the caller's array itself.   *)

UnitCall(fn, X, w, bounds) ==
    [fn |-> fn, st |-> "called", X |-> X, X0 |-> X, w |-> w,
     bounds |-> bounds, out |-> <<>>, alias |-> FALSE]

Matrices(Ns, Ps) ==
    UNION {[1..n -> [1..p -> 0..MaxWeight]] : n \in Ns, p \in Ps}

SeqsUpTo(S, lo, hi) == UNION {[1..k -> S] : k \in lo..hi}

MedianCalls ==
    {UnitCall("median_filter", X, M, <<>>) :
        X \in Matrices(1..3, 1..2), M \in {1, 2, 3, 8}}

FilterCalls ==
    {UnitCall("filter_activation_matrix", G, R, <<>>) :
        G \in Matrices(1..3, 1..2) \cup Matrices(1..2, {3}), R \in {1, 2, 3}}

LabelCalls ==
    {UnitCall("compute_labels2", G, R, b) :
        G \in {OneHot(lab, rank_labels, 3) : lab \in [1..3 -> 1..3]},
        R \in {1, R_labels},
        b \in SeqsUpTo(0..2, 1, 3)}

MostFrequentCalls ==
    {UnitCall("most_frequent", x, 0, <<>>) :
        x \in SeqsUpTo(0..3, 1, 4) \cup {<<2, 2, 2, 5, 2>>}}

InitUnits ==
    /\ unit \in MedianCalls \cup FilterCalls \cup LabelCalls \cup MostFrequentCalls
    /\ inp = [N |-> 0, h |-> 0, R |-> 0, rank |-> 0, bounds |-> None,
              regimes |-> FALSE, contract |-> FALSE]
    /\ pc = "unit"
    /\ rank = 0
    /\ bound_idxs = None
    /\ est_labels = None
    /\ log = <<>>
    /\ found = None
    /\ incs = 0
    /\ medianCalls = 0
    /\ segCalls = 0

Pipeline == <<inp, pc, rank, bound_idxs, est_labels, log, found, incs,
              medianCalls, segCalls>>

(* median_filter, lines 34-38: the columns of X are assigned in place and  *)
(* X itself is returned.                                                   *)
CallMedianFilter ==
    /\ unit.fn = "median_filter" /\ unit.st = "called"
    /\ unit' = [unit EXCEPT !.st = "returned",
                            !.X = median_filter(unit.X, unit.w),
                            !.out = median_filter(unit.X, unit.w),
                            !.alias = TRUE]
    /\ UNCHANGED Pipeline

(* filter_activation_matrix, lines 137-156: G is zeroed and hard-assigned  *)
(* in place (lines 144-145); the result is a new flat array.               *)
CallFilterActivation ==
    /\ unit.fn = "filter_activation_matrix" /\ unit.st = "called"
    /\ unit' = [unit EXCEPT !.st = "returned",
                            !.X = HardAssign(unit.X),
                            !.out = filter_activation_matrix(unit.X, unit.w)]
    /\ UNCHANGED Pipeline

(* compute_labels2, lines 120-134, the factorization having returned the   *)
(* activation matrix X.                                                    *)
CallComputeLabels2 ==
    /\ unit.fn = "compute_labels2" /\ unit.st = "called"
    /\ unit' = [unit EXCEPT !.st = "returned",
                            !.X = HardAssign(unit.X),
                            !.out = compute_labels2(unit.X, unit.w, unit.bounds)]
    /\ UNCHANGED Pipeline

(* most_frequent, lines 71-73.                                             *)
CallMostFrequent ==
    /\ unit.fn = "most_frequent" /\ unit.st = "called"
    /\ unit' = [unit EXCEPT !.st = "returned", !.out = <<most_frequent(unit.X)>>]
    /\ UNCHANGED Pipeline

NextUnits ==
    \/ CallMedianFilter
    \/ CallFilterActivation
    \/ CallComputeLabels2
    \/ CallMostFrequent

SpecUnits == InitUnits /\ [][NextUnits]_vars

-----------------------------------------------------------------------------
(* Properties of a run of process / get_segmentation.                      *)

Returned == pc \in {"times", "done", "AssertionError"}

SegReturned == segCalls = 1 /\ Returned

Discoveries == {i \in DOMAIN log : log[i].kind = "discover"}

LastIs(kind, ok) ==
    /\ log # <<>>
    /\ log[Len(log)].kind = kind
    /\ log[Len(log)].ok = ok

(* C1: whatever the two factorizations do, the pair returned by            *)
(* get_segmentation has one label more than boundaries when there are      *)
(* boundaries and labels [1] when there are none, and the assertion at the *)
(* end of process never fails.                                             *)
C1_OutputContract ==
    /\ SegReturned =>
          /\ bound_idxs.idxs # <<>> =>
                Len(est_labels.idxs) = Len(bound_idxs.idxs) + 1
          /\ bound_idxs.idxs = <<>> => est_labels.idxs = <<1>>
    /\ pc # "AssertionError"

(* C2: with a supplied boundary list no discovery factorization is run,    *)
(* the rank is not escalated, and the boundaries passed to the labeller    *)
(* and returned are the supplied ones, whatever the list.                  *)
C2_SuppliedBoundsUsed ==
    (segCalls = 1 /\ ~inp.bounds.isNone) =>
        /\ Discoveries = {}
        /\ rank = inp.rank
        /\ incs = 0
        /\ (pc = "labels" \/ Returned) => bound_idxs = inp.bounds

(* C3: a discovery factorization that fails, at the first or at a later    *)
(* rank, is the last factorization of the call: get_segmentation has       *)
(* returned no boundary and labels [1], and process ends normally.         *)
C3_FailureReturnsDegenerate ==
    \A i \in Discoveries :
        ~log[i].ok =>
            /\ i = Len(log)
            /\ pc \in {"times", "done"}
            /\ bound_idxs = Some(<<>>)
            /\ est_labels = Some(<<1>>)

C3_Witness ==
    /\ pc = "done"
    /\ Len(log) >= 2
    /\ LastIs("discover", FALSE)

(* C4: discovery tries the initial rank first and then the ranks that      *)
(* follow, one by one: every attempt but the first comes right after an    *)
(* attempt at the rank below that returned and led to 2 or fewer distinct  *)
(* candidates; an attempt leading to more than 2 is the last discovery,    *)
(* and its candidates are the boundaries returned.                         *)
C4_RankEscalation ==
    \A i \in Discoveries :
        /\ (i = 1 /\ inp.bounds.isNone) => log[i].rank = inp.rank
        /\ i > 1 =>
              /\ log[i - 1].kind = "discover"
              /\ log[i - 1].ok
              /\ log[i - 1].nb <= 2
              /\ log[i].rank = log[i - 1].rank + 1
        /\ (log[i].ok /\ log[i].nb <= 2 /\ i = Len(log)) =>
              /\ pc = "loop"
              /\ rank = log[i].rank + 1
              /\ bound_idxs.isNone
        /\ (log[i].ok /\ log[i].nb > 2) =>
              /\ \A j \in Discoveries : j <= i
              /\ rank = log[i].rank
              /\ bound_idxs = found
              /\ Cardinality(Range(bound_idxs.idxs)) = log[i].nb
              /\ pc = "labels" \/ Returned

C4_Witness ==
    /\ pc = "done"
    /\ inp.bounds.isNone
    /\ Discoveries = {1, 2, 3}
    /\ log[3].ok /\ log[3].nb > 2
    /\ rank = inp.rank + 2
    /\ bound_idxs = found

C6_Bound ==
    LET d == inp.N - inp.rank
    IN  IF inp.bounds.isNone THEN (IF d > 0 THEN d ELSE 0)
        ELSE (IF d > 1 THEN d ELSE 1)

C7_TooShortSkipsFactorization ==
    pc # "process" =>
        /\ inp.N < inp.h =>
              /\ medianCalls = 0
              /\ segCalls = 0
              /\ log = <<>>
              /\ bound_idxs = Some(<<>>)
              /\ est_labels = Some(<<1>>)
        /\ inp.N >= inp.h =>
              /\ medianCalls = 1
              /\ segCalls = 1

C7_Witness ==
    /\ pc = "done"
    /\ inp.N < inp.h
    /\ medianCalls = 0
    /\ log = <<>>

-----------------------------------------------------------------------------
(* The two-regime run.                                                     *)

NearMiddle(c, N) ==
    LET d == 2 * c - N IN (IF d < 0 THEN -d ELSE d) <= N \div 10

(* The attempt at the initial rank 2 returned and its filtered label       *)
(* sequence changes value once (for the two-regime activations, at the     *)
(* boundary of the second and third quarter, the middle of the input).     *)
FirstAttemptOneChange ==
    /\ log # <<>>
    /\ log[1].kind = "discover" /\ log[1].rank = 2 /\ log[1].ok
    /\ log[1].nb = 1

(* C5 as stated: the two-regime input at initial rank 2, its filtered      *)
(* label sequence changing once near the middle, comes back with exactly   *)
(* one boundary and two labels.                                            *)
C5_OneBoundaryTwoLabels ==
    (SegReturned /\ FirstAttemptOneChange) =>
        /\ Len(bound_idxs.idxs) = 1
        /\ NearMiddle(bound_idxs.idxs[1], inp.N)
        /\ Len(est_labels.idxs) = 2

(* C5, amended: that attempt's single boundary is 2 or fewer, so the rank  *)
(* is raised to 3 and discovery repeated; the call comes back either with  *)
(* more than 2 distinct boundaries or, a factorization having failed, with *)
(* no boundary and labels [1], never with the single boundary.             *)
C5_SingleBoundaryEscalates ==
    FirstAttemptOneChange =>
        /\ rank >= 3
        /\ incs >= 1
        /\ pc = "loop" => bound_idxs.isNone
        /\ SegReturned =>
              \/ bound_idxs.idxs = <<>> /\ est_labels.idxs = <<1>>
              \/ Cardinality(Range(bound_idxs.idxs)) > 2

C5_Witness ==
    /\ pc = "done"
    /\ FirstAttemptOneChange
    /\ rank = 3
    /\ Len(bound_idxs.idxs) = 3
    /\ Len(est_labels.idxs) = 4

-----------------------------------------------------------------------------
(* Properties of the direct calls.                                         *)

Done(fn) == unit.fn = fn /\ unit.st = "returned"

(* C8: after median_filter or filter_activation_matrix returns, the array  *)
(* the caller passed holds what it held before, and the result is a        *)
(* separate array.                                                         *)
C8_CallerArrayUntouched ==
    (Done("median_filter") \/ Done("filter_activation_matrix")) =>
        /\ unit.X = unit.X0
        /\ ~unit.alias

Count(x, S, v) == Cardinality({k \in S : x[k] = v})

(* v is the most frequent value of x on the positions S, the lowest of     *)
(* the values that are as frequent.                                        *)
IsLowestMode(x, S, v) ==
    /\ Count(x, S, v) > 0
    /\ \A k \in S : /\ Count(x, S, x[k]) <= Count(x, S, v)
                    /\ Count(x, S, x[k]) = Count(x, S, v) => v <= x[k]

(* C9: for m >= 1 boundaries compute_labels2 returns m + 1 labels: the     *)
(* label of frame 0, one label per adjacent pair of boundaries (the lowest *)
(* of the most frequent frame labels in [b_i, b_i+1) when b_i+1 > b_i,     *)
(* else max(frame labels) + 1, which no frame has), the label of the last  *)
(* frame; and most_frequent([2,2,2,5,2]) = 2.                              *)
C9_LabelLayout ==
    /\ Done("compute_labels2") =>
          LET lf == filter_activation_matrix(unit.X0, unit.w)
              b == unit.bounds
              m == Len(b)
          IN  /\ Len(unit.out) = m + 1
              /\ unit.out[1] = lf[1]
              /\ unit.out[m + 1] = lf[Len(lf)]
              /\ \A i \in 1..(m - 1) :
                    IF b[i + 1] > b[i]
                    THEN IsLowestMode(lf, (b[i] + 1)..b[i + 1], unit.out[i + 1])
                    ELSE /\ unit.out[i + 1] = SetMax(Range(lf)) + 1
                         /\ unit.out[i + 1] \notin Range(lf)
    /\ (Done("most_frequent") /\ unit.X0 = <<2, 2, 2, 5, 2>>) => unit.out = <<2>>
    /\ Done("most_frequent") =>
          IsLowestMode(unit.X0, DOMAIN unit.X0, unit.out[1])

C9_Witness ==
    /\ Done("compute_labels2")
    /\ Len(unit.bounds) = 3
    /\ unit.bounds[2] > unit.bounds[1] + 1
    /\ unit.bounds[3] <= unit.bounds[2]
    /\ LET lf == filter_activation_matrix(unit.X0, unit.w)
       IN  /\ lf[unit.bounds[1] + 1] > lf[unit.bounds[1] + 2]
           /\ unit.out[2] = lf[unit.bounds[1] + 2]
           /\ unit.out[3] \notin Range(lf)

(* The lowest index (from 1) among the components of maximal weight.       *)
LowestMaximal(row) ==
    CHOOSE c \in DOMAIN row :
        /\ \A d \in DOMAIN row : row[d] <= row[c]
        /\ \A d \in DOMAIN row : d < c => row[d] < row[c]

(* C10: filter_activation_matrix returns N integers in 1..rank; frame n's  *)
(* value before smoothing is 1 + the lowest index (from 0) among its       *)
(* components of maximal weight, and smoothing only outputs values of the  *)
(* unsmoothed sequence (the sequence itself for a window of 1).            *)
C10_HardLabelsInRange ==
    Done("filter_activation_matrix") =>
        LET G == unit.X0
            flat == [n \in 1..Len(G) |-> LowestMaximal(G[n])]
        IN  /\ Len(unit.out) = Len(G)
            /\ \A n \in 1..Len(G) :
                  /\ unit.out[n] \in 1..Len(G[n])
                  /\ unit.X[n][flat[n]] = flat[n]
                  /\ SeqSum(unit.X[n]) = flat[n]
            /\ Range(unit.out) \subseteq Range(flat)
            /\ unit.w = 1 => unit.out = flat

C10_Witness ==
    /\ Done("filter_activation_matrix")
    /\ unit.w = 3
    /\ unit.X0 = <<<<1, 1>>, <<0, 1>>, <<1, 1>>>>
    /\ unit.X = <<<<1, 0>>, <<0, 2>>, <<1, 0>>>>
    /\ unit.out = <<1, 1, 1>>

====
